---- MODULE Spec2Model ----
(***************************************************************************)
(* Model of nemo_asr/run_eval.py: the one-shot evaluation driver that      *)
(* parses the command line, loads a dataset, writes the audio of every     *)
(* sample to a cache directory, sorts the samples by duration, transcribes *)
(* them, normalizes the transcriptions, writes a results manifest,         *)
(* computes the WER and prints RTFX and WER.                               *)
(*                                                                         *)
(* Python lists are sequences indexed from 1 (sorted_indices holds         *)
(* 1-based positions).  An audio array is represented by its number of     *)
(* frames; the arrays of the model are whole seconds long, so that         *)
(* len(array) / 16_000 is exact.  A text is one word.                      *)
(***************************************************************************)
EXTENDS Integers, Sequences, FiniteSets, TLC

\* ---------------------------------------------------------------- bounds
MaxSamples == 2      \* samples in the dataset that load_data returns
MaxSeconds == 2      \* longest audio array, in seconds

\* ------------------------------------------------------------- constants
SAMPLE_RATE == 16000

DATA_CACHE_DIR == "audio_cache"
DATASET_NAME == "librispeech"
CACHE_DIR == <<DATA_CACHE_DIR, DATASET_NAME>>

\* An optional value is a sequence: <<>> is Python's None, <<v>> is v.
None == <<>>
Some(v) == <<v>>

Ids == {"a", "b"}
RefTexts == {"Hello", "world"}
BatchSizes == {1, 2}
ElapsedTimes == {1, 2}
MaxEvalValues == {None} \cup {Some(n) : n \in -1 .. MaxSamples}

Arrays == {s * SAMPLE_RATE : s \in 1 .. MaxSeconds}

Samples == [id : Ids, audio : Arrays, text : RefTexts]

Datasets == UNION {[1 .. n -> Samples] : n \in 1 .. MaxSamples}

\* ------------------------------------------------------ external helpers
\* data_utils.normalizer: canonical (lower-case) form of a word.
normalizer(t) ==
    CASE t = "Hello" -> "hello"
      [] t = "World" -> "world"
      [] OTHER -> t

\* data_utils.prepare_data: adds the normalized transcript to every sample.
prepare_data(ds) ==
    [k \in 1 .. Len(ds) |->
        [id |-> ds[k].id, audio |-> ds[k].audio, text |-> ds[k].text,
         norm_text |-> normalizer(ds[k].text)]]

\* dataset.take(n): the first n samples.
take(ds, n) == SubSeq(ds, 1, IF n < Len(ds) THEN n ELSE Len(ds))

\* os.path.join(CACHE_DIR, f"{id}.wav")
audio_path(id) == [dir |-> CACHE_DIR, name |-> id, ext |-> "wav"]

Paths == {audio_path(i) : i \in Ids}

\* soundfile.write(path, np.float32(array), 16_000): the file written.
wav(array) == [frames |-> array, samplerate |-> SAMPLE_RATE]

Wavs == {wav(a) : a \in Arrays}

\* len(sample["array"]) / 16_000
duration(array) == array \div SAMPLE_RATE

\* The text the ASR model produces for an audio file (raw, not normalized).
hypothesis(file) ==
    IF (file.frames \div file.samplerate) % 2 = 1 THEN "Hello" ELSE "World"

\* Partial functions from S to T: the possible contents of a directory.
PartialFunctions(S, T) == UNION {[D -> T] : D \in SUBSET S}

VARIABLES
    pc,               \* position of the script
    argv,             \* the command line
    parser,           \* the ArgumentParser's defaults
    args,             \* the Namespace parse_args returns
    cache_dir,        \* whether CACHE_DIR exists
    files,            \* the files of CACHE_DIR: path -> content
    hub,              \* the dataset load_data returns
    dataset,          \* main's dataset
    mapped,           \* samples dataset.map has produced so far
    all_data,         \* main's all_data
    sorted_indices,   \* main's sorted_indices
    transcriptions,   \* main's transcriptions
    total_time,       \* main's total_time
    predictions,      \* main's predictions
    manifest,         \* the calls of data_utils.write_manifest
    scored,           \* the calls of wer_metric.compute
    stdout            \* the lines printed

vars == <<pc, argv, parser, args, cache_dir, files, hub, dataset, mapped,
          all_data, sorted_indices, transcriptions, total_time, predictions,
          manifest, scored, stdout>>

EmptyData == [audio_filepaths |-> <<>>, durations |-> <<>>, references |-> <<>>]

Init ==
    /\ pc = "add_arguments"
    /\ argv \in [no_streaming : BOOLEAN, max_eval_samples : MaxEvalValues,
                 batch_size : BatchSizes]
    /\ parser = <<>>
    /\ args = <<>>
    /\ cache_dir \in BOOLEAN
    /\ files \in PartialFunctions(Paths, Wavs)
    /\ (~cache_dir => files = <<>>)
    /\ hub \in Datasets
    /\ dataset = <<>>
    /\ mapped = <<>>
    /\ all_data = EmptyData
    /\ sorted_indices = <<>>
    /\ transcriptions = <<>>
    /\ total_time = 0
    /\ predictions = <<>>
    /\ manifest = <<>>
    /\ scored = <<>>
    /\ stdout = <<>>

\* ------------------------------------------------------------- __main__
\* parser.add_argument(...): --max_eval_samples has default=None, and the
\* store_false action of --no-streaming gives dest streaming the default True.
AddArguments ==
    /\ pc = "add_arguments"
    /\ parser' = [streaming |-> TRUE, max_eval_samples |-> None]
    /\ pc' = "parse_args"
    /\ UNCHANGED <<argv, args, cache_dir, files, hub, dataset, mapped, all_data,
                   sorted_indices, transcriptions, total_time, predictions,
                   manifest, scored, stdout>>

\* args = parser.parse_args()
ParseArgs ==
    /\ pc = "parse_args"
    /\ args' = [streaming |-> IF argv.no_streaming THEN FALSE ELSE parser.streaming,
                max_eval_samples |-> IF argv.max_eval_samples # None
                                     THEN argv.max_eval_samples
                                     ELSE parser.max_eval_samples,
                batch_size |-> argv.batch_size]
    /\ pc' = "set_defaults"
    /\ UNCHANGED <<argv, parser, cache_dir, files, hub, dataset, mapped, all_data,
                   sorted_indices, transcriptions, total_time, predictions,
                   manifest, scored, stdout>>

\* Variant of SetDefaults that also overwrites the parsed Namespace.
SetDefaultsArgsToo ==
    /\ pc = "set_defaults"
    /\ parser' = [parser EXCEPT !.streaming = TRUE]
    /\ args' = [args EXCEPT !.streaming = TRUE]
    /\ pc' = "main"
    /\ UNCHANGED <<argv, cache_dir, files, hub, dataset, mapped, all_data,
                   sorted_indices, transcriptions, total_time, predictions,
                   manifest, scored, stdout>>

\* parser.set_defaults(streaming=True): changes the parser, not the Namespace.
SetDefaults ==
    /\ pc = "set_defaults"
    /\ parser' = [parser EXCEPT !.streaming = TRUE]
    /\ pc' = "main"
    /\ UNCHANGED <<argv, args, cache_dir, files, hub, dataset, mapped, all_data,
                   sorted_indices, transcriptions, total_time, predictions,
                   manifest, scored, stdout>>

\* ------------------------------------------------------------------ main
\* if not os.path.exists(CACHE_DIR): os.makedirs(CACHE_DIR)
MakeCacheDir ==
    /\ pc = "main"
    /\ cache_dir' = TRUE
    /\ pc' = "load_data"
    /\ UNCHANGED <<argv, parser, args, files, hub, dataset, mapped, all_data,
                   sorted_indices, transcriptions, total_time, predictions,
                   manifest, scored, stdout>>

\* dataset = data_utils.load_data(args)
LoadData ==
    /\ pc = "load_data"
    /\ dataset' = hub
    /\ pc' = "subsample"
    /\ UNCHANGED <<argv, parser, args, cache_dir, files, hub, mapped, all_data,
                   sorted_indices, transcriptions, total_time, predictions,
                   manifest, scored, stdout>>

\* Variant of Subsample without the > 0 test.
SubsampleWheneverGiven ==
    /\ pc = "subsample"
    /\ IF args.max_eval_samples # None
       THEN /\ stdout' = Append(stdout, [text |-> "Subsampling dataset",
                                      value |-> args.max_eval_samples])
            /\ dataset' = take(dataset, IF args.max_eval_samples[1] > 0
                                        THEN args.max_eval_samples[1] ELSE 0)
       ELSE UNCHANGED <<stdout, dataset>>
    /\ pc' = "prepare_data"
    /\ UNCHANGED <<argv, parser, args, cache_dir, files, hub, mapped, all_data,
                   sorted_indices, transcriptions, total_time, predictions,
                   manifest, scored>>

\* if args.max_eval_samples is not None and args.max_eval_samples > 0:
\*     dataset = dataset.take(args.max_eval_samples)
Subsample ==
    /\ pc = "subsample"
    /\ IF args.max_eval_samples # None /\ args.max_eval_samples[1] > 0
       THEN /\ stdout' = Append(stdout, [text |-> "Subsampling dataset",
                                      value |-> args.max_eval_samples])
            /\ dataset' = take(dataset, args.max_eval_samples[1])
       ELSE UNCHANGED <<stdout, dataset>>
    /\ pc' = "prepare_data"
    /\ UNCHANGED <<argv, parser, args, cache_dir, files, hub, mapped, all_data,
                   sorted_indices, transcriptions, total_time, predictions,
                   manifest, scored>>

\* dataset = data_utils.prepare_data(dataset)
PrepareData ==
    /\ pc = "prepare_data"
    /\ dataset' = prepare_data(dataset)
    /\ pc' = "map"
    /\ UNCHANGED <<argv, parser, args, cache_dir, files, hub, mapped, all_data,
                   sorted_indices, transcriptions, total_time, predictions,
                   manifest, scored, stdout>>

\* ------------------------------------------------- download_audio_files
\* Variant of write_missing without the os.path.exists test.
RECURSIVE write_always(_, _)
write_always(fs, batch) ==
    IF batch = <<>> THEN fs
    ELSE LET path == audio_path(Head(batch).id)
             file == wav(Head(batch).audio)
         IN  write_always([p \in DOMAIN fs \cup {path} |->
                              IF p = path THEN file ELSE fs[p]],
                          Tail(batch))

\* The for loop of download_audio_files: the files of CACHE_DIR after it.
\*     if not os.path.exists(audio_path): soundfile.write(audio_path, ...)
RECURSIVE write_missing(_, _)
write_missing(fs, batch) ==
    IF batch = <<>> THEN fs
    ELSE LET path == audio_path(Head(batch).id)
             file == wav(Head(batch).audio)
         IN  write_missing(IF path \in DOMAIN fs
                           THEN fs
                           ELSE [p \in DOMAIN fs \cup {path} |->
                                    IF p = path THEN file ELSE fs[p]],
                           Tail(batch))

\* The batch download_audio_files returns (the audio column is removed).
download_audio_files(batch) ==
    [k \in 1 .. Len(batch) |->
        [id |-> batch[k].id, text |-> batch[k].text,
         norm_text |-> batch[k].norm_text,
         references |-> batch[k].norm_text,
         audio_filepaths |-> audio_path(batch[k].id),
         durations |-> duration(batch[k].audio)]]

\* The next batch dataset.map hands to download_audio_files.
NextBatch ==
    LET lo == Len(mapped) + 1
        hi == IF Len(mapped) + args.batch_size < Len(dataset)
              THEN Len(mapped) + args.batch_size ELSE Len(dataset)
    IN  SubSeq(dataset, lo, hi)

\* dataset.map(download_audio_files, batch_size=args.batch_size, batched=True)
\* applied to one batch.  A streamed dataset is mapped lazily, a batch at
\* the time the iteration needs it; otherwise all batches are mapped first.
MapBatch ==
    /\ pc = "map"
    /\ Len(mapped) < Len(dataset)
    /\ args.streaming => Len(all_data.durations) = Len(mapped)
    /\ files' = write_missing(files, NextBatch)
    /\ mapped' = mapped \o download_audio_files(NextBatch)
    /\ UNCHANGED <<pc, argv, parser, args, cache_dir, hub, dataset, all_data,
                   sorted_indices, transcriptions, total_time, predictions,
                   manifest, scored, stdout>>

\* for data in data_itr: for key in all_data: all_data[key].append(data[key])
Collect ==
    /\ pc = "map"
    /\ Len(all_data.durations) < Len(mapped)
    /\ ~args.streaming => Len(mapped) = Len(dataset)
    /\ LET data == mapped[Len(all_data.durations) + 1]
       IN  all_data' =
             [audio_filepaths |-> Append(all_data.audio_filepaths, data.audio_filepaths),
              durations |-> Append(all_data.durations, data.durations),
              references |-> Append(all_data.references, data.references)]
    /\ UNCHANGED <<pc, argv, parser, args, cache_dir, files, hub, dataset, mapped,
                   sorted_indices, transcriptions, total_time, predictions,
                   manifest, scored, stdout>>

\* ------------------------------------------------------------- the sort
\* sorted is stable, also with reverse=True: index k comes after every
\* earlier index whose key is at least the key of k.
insert_reverse(s, k, keys) ==
    LET pos == Cardinality({j \in 1 .. Len(s) : keys[s[j]] >= keys[k]})
    IN  SubSeq(s, 1, pos) \o <<k>> \o SubSeq(s, pos + 1, Len(s))

\* Variants of insert_reverse and sorted_reverse without reverse=True.
insert_ascending(s, k, keys) ==
    LET pos == Cardinality({j \in 1 .. Len(s) : keys[s[j]] =< keys[k]})
    IN  SubSeq(s, 1, pos) \o <<k>> \o SubSeq(s, pos + 1, Len(s))

RECURSIVE sorted_ascending(_, _)
sorted_ascending(keys, n) ==
    IF n = 0 THEN <<>>
    ELSE insert_ascending(sorted_ascending(keys, n - 1), n, keys)

\* sorted(range(n), key=lambda k: keys[k], reverse=True)
RECURSIVE sorted_reverse(_, _)
sorted_reverse(keys, n) ==
    IF n = 0 THEN <<>>
    ELSE insert_reverse(sorted_reverse(keys, n - 1), n, keys)

\* [lst[i] for i in sorted_indices]
Reorder(lst, indices) == [i \in 1 .. Len(indices) |-> lst[indices[i]]]

\* Variant of Sort that leaves the references in dataset order.
SortPathsAndDurationsOnly ==
    /\ pc = "map"
    /\ Len(mapped) = Len(dataset)
    /\ Len(all_data.durations) = Len(mapped)
    /\ LET indices == sorted_reverse(all_data.durations, Len(all_data.durations))
       IN  /\ sorted_indices' = indices
           /\ all_data' =
                [audio_filepaths |-> Reorder(all_data.audio_filepaths, indices),
                 references |-> all_data.references,
                 durations |-> Reorder(all_data.durations, indices)]
    /\ pc' = "transcribe"
    /\ UNCHANGED <<argv, parser, args, cache_dir, files, hub, dataset, mapped,
                   transcriptions, total_time, predictions, manifest, scored,
                   stdout>>

\* The iteration is exhausted; sorted_indices is computed and the three
\* lists of all_data are reordered by it.
Sort ==
    /\ pc = "map"
    /\ Len(mapped) = Len(dataset)
    /\ Len(all_data.durations) = Len(mapped)
    /\ LET indices == sorted_reverse(all_data.durations, Len(all_data.durations))
       IN  /\ sorted_indices' = indices
           /\ all_data' =
                [audio_filepaths |-> Reorder(all_data.audio_filepaths, indices),
                 references |-> Reorder(all_data.references, indices),
                 durations |-> Reorder(all_data.durations, indices)]
    /\ pc' = "transcribe"
    /\ UNCHANGED <<argv, parser, args, cache_dir, files, hub, dataset, mapped,
                   transcriptions, total_time, predictions, manifest, scored,
                   stdout>>

\* --------------------------------------------- inference and its results
MODEL_ID == "nvidia/model"
DATASET_PATH == "esb/datasets"
SPLIT == "test"

\* transcriptions = asr_model.transcribe(all_data["audio_filepaths"], ...):
\* one text per path, in the order of the paths, from the file at the path.
\* total_time is the time the call took.
Transcribe ==
    /\ pc = "transcribe"
    /\ transcriptions' = [i \in 1 .. Len(all_data.audio_filepaths) |->
                             hypothesis(files[all_data.audio_filepaths[i]])]
    /\ total_time' \in ElapsedTimes
    /\ pc' = "normalize"
    /\ UNCHANGED <<argv, parser, args, cache_dir, files, hub, dataset, mapped,
                   all_data, sorted_indices, predictions, manifest, scored,
                   stdout>>

\* predictions = [data_utils.normalizer(pred) for pred in transcriptions]
Normalize ==
    /\ pc = "normalize"
    /\ predictions' = [i \in 1 .. Len(transcriptions) |->
                          normalizer(transcriptions[i])]
    /\ pc' = "write_manifest"
    /\ UNCHANGED <<argv, parser, args, cache_dir, files, hub, dataset, mapped,
                   all_data, sorted_indices, transcriptions, total_time,
                   manifest, scored, stdout>>

\* The arguments of the call of data_utils.write_manifest.
write_manifest_call(texts) ==
    [references |-> all_data.references,
     transcriptions |-> texts,
     model_id |-> MODEL_ID,
     dataset_path |-> DATASET_PATH,
     dataset_name |-> DATASET_NAME,
     split |-> SPLIT,
     audio_length |-> all_data.durations]

\* Variant of WriteManifest that runs before the normalization.
WriteManifestUnnormalized ==
    /\ pc = "normalize"
    /\ manifest' = Append(manifest, write_manifest_call(transcriptions))
    /\ stdout' = Append(stdout, [text |-> "Results saved at path", value |-> <<>>])
    /\ pc' = "compute"
    /\ UNCHANGED <<argv, parser, args, cache_dir, files, hub, dataset, mapped,
                   all_data, sorted_indices, transcriptions, total_time,
                   predictions, scored>>

\* manifest_path = data_utils.write_manifest(...); print("Results saved ...")
WriteManifest ==
    /\ pc = "write_manifest"
    /\ manifest' = Append(manifest, write_manifest_call(predictions))
    /\ stdout' = Append(stdout, [text |-> "Results saved at path", value |-> <<>>])
    /\ pc' = "compute"
    /\ UNCHANGED <<argv, parser, args, cache_dir, files, hub, dataset, mapped,
                   all_data, sorted_indices, transcriptions, total_time,
                   predictions, scored>>

\* The word errors of one-word texts: the pairs that differ, and the words
\* of the references.
word_errors(refs, preds) ==
    <<Cardinality({i \in 1 .. Len(refs) : refs[i] # preds[i]}), Len(refs)>>

\* Variant of Compute that scores the raw transcriptions.
ComputeOnTranscriptions ==
    /\ pc = "compute"
    /\ scored' = Append(scored,
                        [references |-> all_data.references,
                         predictions |-> transcriptions,
                         wer |-> word_errors(all_data.references, transcriptions)])
    /\ pc' = "print"
    /\ UNCHANGED <<argv, parser, args, cache_dir, files, hub, dataset, mapped,
                   all_data, sorted_indices, transcriptions, total_time,
                   predictions, manifest, stdout>>

\* wer = wer_metric.compute(references=all_data['references'],
\*                          predictions=predictions)
Compute ==
    /\ pc = "compute"
    /\ scored' = Append(scored,
                        [references |-> all_data.references,
                         predictions |-> predictions,
                         wer |-> word_errors(all_data.references, predictions)])
    /\ pc' = "print"
    /\ UNCHANGED <<argv, parser, args, cache_dir, files, hub, dataset, mapped,
                   all_data, sorted_indices, transcriptions, total_time,
                   predictions, manifest, stdout>>

\* sum(all_data["durations"])
RECURSIVE sum(_)
sum(lst) == IF lst = <<>> THEN 0 ELSE Head(lst) + sum(Tail(lst))

\* rtfx = audio_length / total_time; print("RTFX:", rtfx); print("WER:", wer, "%")
\* The quotients are printed as <<numerator, denominator>>.
PrintResults ==
    /\ pc = "print"
    /\ stdout' = stdout \o
          <<[text |-> "RTFX", value |-> <<sum(all_data.durations), total_time>>],
            [text |-> "WER", value |-> scored[Len(scored)].wer]>>
    /\ pc' = "done"
    /\ UNCHANGED <<argv, parser, args, cache_dir, files, hub, dataset, mapped,
                   all_data, sorted_indices, transcriptions, total_time,
                   predictions, manifest, scored>>

Next ==
    \/ AddArguments
    \/ ParseArgs
    \/ SetDefaults
    \/ MakeCacheDir
    \/ LoadData
    \/ Subsample
    \/ PrepareData
    \/ MapBatch
    \/ Collect
    \/ Sort
    \/ Transcribe
    \/ Normalize
    \/ WriteManifest
    \/ Compute
    \/ PrintResults

Spec == Init /\ [][Next]_vars

\* ------------------------------------------------------------ properties
\* Positions of main after the sort: all_data holds the sorted lists.
AfterSort == {"transcribe", "normalize", "write_manifest", "compute", "print", "done"}

\* Positions of main after dataset.take.
AfterSubsample == {"prepare_data", "map"} \cup AfterSort

IsPermutation(s, n) ==
    /\ Len(s) = n
    /\ \A k \in 1 .. n : \E i \in 1 .. n : s[i] = k

\* C1: the paths passed to asr_model.transcribe are ordered by non-increasing
\* duration, the duration at each position being that of the sample whose
\* path is there, and every sample of the dataset has been collected.
C1_TranscribeSortedByDuration ==
    pc \in AfterSort =>
        /\ Len(mapped) = Len(dataset)
        /\ Len(all_data.audio_filepaths) = Len(dataset)
        /\ Len(all_data.durations) = Len(dataset)
        /\ \A i \in 1 .. Len(dataset) :
              /\ all_data.audio_filepaths[i] = audio_path(dataset[sorted_indices[i]].id)
              /\ all_data.durations[i] = duration(dataset[sorted_indices[i]].audio)
        /\ \A i \in 1 .. Len(dataset) - 1 :
              all_data.durations[i] >= all_data.durations[i + 1]
        /\ \A i \in 1 .. Len(transcriptions) :
              transcriptions[i] = hypothesis(files[all_data.audio_filepaths[i]])

\* transcribe is about to be called on a dataset that came in another order.
C1_Witness ==
    /\ pc = "transcribe"
    /\ Len(dataset) >= 2
    /\ duration(dataset[1].audio) < duration(dataset[2].audio)
    /\ sorted_indices[1] # 1

\* C2 as stated: the WER is computed before the manifest is written.
C2_ScoreBeforeWrite ==
    manifest # <<>> => scored # <<>>

\* C2 amended: the steps happen once each in the order load, materialize,
\* sort, infer, normalize, write, score, print: the manifest is written
\* before the WER is computed, both after the predictions are normalized
\* and before RTFX and WER are printed.
C2_LinearOrder ==
    LET Printed(t) == {i \in 1 .. Len(stdout) : stdout[i].text = t}
    IN  /\ Len(manifest) =< 1
        /\ Len(scored) =< 1
        /\ Cardinality(Printed("RTFX")) =< 1
        /\ Cardinality(Printed("WER")) =< 1
        /\ mapped # <<>> => dataset # <<>>
        /\ sorted_indices # <<>> => /\ dataset # <<>>
                                    /\ Len(mapped) = Len(dataset)
        /\ transcriptions # <<>> => sorted_indices # <<>>
        /\ predictions # <<>> => transcriptions # <<>>
        /\ manifest # <<>> => /\ predictions # <<>>
                              /\ manifest[1].transcriptions = predictions
        /\ scored # <<>> => manifest # <<>>
        /\ Printed("RTFX") \cup Printed("WER") # {} => scored # <<>>
        /\ \A i \in Printed("WER") : i - 1 \in Printed("RTFX")

\* The manifest is written and the WER not yet computed.
C2_Witness ==
    /\ pc = "compute"
    /\ Len(manifest) = 1
    /\ predictions # <<>>
    /\ scored = <<>>

\* C3 as stated: write_manifest receives the paths, the durations, the
\* references and the predictions of the samples.
C3_ManifestReceivesFourLists ==
    \A c \in 1 .. Len(manifest) :
        /\ manifest[c].references = all_data.references
        /\ manifest[c].transcriptions = predictions
        /\ manifest[c].audio_length = all_data.durations
        /\ \E f \in DOMAIN manifest[c] :
              /\ f \notin {"references", "transcriptions", "audio_length",
                           "model_id", "dataset_path", "dataset_name", "split"}
              /\ manifest[c][f] = all_data.audio_filepaths

\* C4: a step of dataset.map leaves every file that exists unchanged, writes
\* <id>.wav for the samples of the batch that have no file, from the first
\* such sample of the batch, and appends the path of every sample.
C4_CachedFilesKept ==
    [][Len(mapped') > Len(mapped) =>
          LET new == (Len(mapped) + 1) .. Len(mapped')
              FirstOf(p) == CHOOSE k \in new :
                               /\ audio_path(dataset[k].id) = p
                               /\ \A j \in new : audio_path(dataset[j].id) = p => k =< j
          IN  /\ \A p \in DOMAIN files : p \in DOMAIN files' /\ files'[p] = files[p]
              /\ \A p \in DOMAIN files' \ DOMAIN files :
                    /\ \E k \in new : audio_path(dataset[k].id) = p
                    /\ files'[p] = wav(dataset[FirstOf(p)].audio)
              /\ \A k \in new :
                    /\ audio_path(dataset[k].id) \in DOMAIN files'
                    /\ mapped'[k].audio_filepaths = audio_path(dataset[k].id)
                    /\ mapped'[k].durations = duration(dataset[k].audio)
              /\ SubSeq(mapped', 1, Len(mapped)) = mapped
    ]_vars

\* Every sample is mapped; the file of one was there and kept, with another
\* audio, and the file of another was written.
C4_Witness ==
    /\ pc = "map"
    /\ Len(mapped) = Len(dataset)
    /\ Len(dataset) >= 2
    /\ \E k \in 1 .. Len(dataset) :
          files[audio_path(dataset[k].id)] # wav(dataset[k].audio)
    /\ \E k \in 1 .. Len(dataset) :
          files[audio_path(dataset[k].id)] = wav(dataset[k].audio)

\* C5: wer_metric.compute receives the normalized transcriptions and the
\* normalized transcripts (norm_text) of the samples.
C5_ScoredTextsNormalized ==
    \A c \in 1 .. Len(scored) :
        /\ Len(scored[c].predictions) = Len(dataset)
        /\ Len(scored[c].references) = Len(dataset)
        /\ \A i \in 1 .. Len(dataset) :
              /\ scored[c].predictions[i] = normalizer(transcriptions[i])
              /\ scored[c].references[i] = dataset[sorted_indices[i]].norm_text

\* The WER is computed where normalizing changed a transcription and a
\* transcript.
C5_Witness ==
    /\ Len(scored) = 1
    /\ \E i \in 1 .. Len(transcriptions) :
          scored[1].predictions[i] # transcriptions[i]
    /\ \E i \in 1 .. Len(dataset) :
          scored[1].references[i] # dataset[sorted_indices[i]].text

SameSample(prepared, raw) ==
    /\ prepared.id = raw.id
    /\ prepared.audio = raw.audio
    /\ prepared.text = raw.text

\* C6: with --max_eval_samples n, n > 0, the dataset is the first n samples
\* of the loaded one (all of them when it has fewer); without it, or with 0
\* or a negative number, the dataset is the loaded one.  That many samples
\* are materialized, transcribed and scored.
C6_MaxEvalSamples ==
    pc \in AfterSubsample =>
        LET given == argv.max_eval_samples
            n == IF given # None /\ given[1] > 0 /\ given[1] < Len(hub)
                 THEN given[1] ELSE Len(hub)
        IN  /\ Len(dataset) = n
            /\ \A k \in 1 .. n : SameSample(dataset[k], hub[k])
            /\ Len(mapped) =< n
            /\ \A k \in 1 .. Len(mapped) : mapped[k].id = hub[k].id
            /\ Len(transcriptions) \in {0, n}
            /\ \A c \in 1 .. Len(scored) : Len(scored[c].predictions) = n
            /\ \A c \in 1 .. Len(manifest) : Len(manifest[c].transcriptions) = n

\* A run that evaluated fewer samples than were loaded.
C6_Witness ==
    /\ pc = "done"
    /\ argv.max_eval_samples # None
    /\ Len(hub) = 2
    /\ Len(scored[1].predictions) = 1
    /\ Len(transcriptions) = 1

\* C7: the streaming option main receives is True unless --no-streaming was
\* passed, also after parser.set_defaults(streaming=True).
C7_StreamingOption ==
    pc \notin {"add_arguments", "parse_args"} =>
        /\ args.streaming = ~argv.no_streaming
        /\ args.max_eval_samples = argv.max_eval_samples

\* main runs with --no-streaming after set_defaults(streaming=True).
C7_Witness ==
    /\ pc = "main"
    /\ argv.no_streaming
    /\ parser.streaming = TRUE
    /\ args.streaming = FALSE

\* C8: the sort applies one permutation to the three lists, so position i
\* of each holds the value of the same sample, and so do the predictions
\* and references of write_manifest and wer_metric.compute.
C8_OnePermutation ==
    pc \in AfterSort =>
        LET n == Len(mapped)
            PredictionFor(k) ==
                normalizer(hypothesis(files[audio_path(dataset[k].id)]))
        IN  /\ IsPermutation(sorted_indices, n)
            /\ Len(all_data.audio_filepaths) = n
            /\ Len(all_data.references) = n
            /\ Len(all_data.durations) = n
            /\ \A i \in 1 .. n :
                  /\ all_data.audio_filepaths[i] = mapped[sorted_indices[i]].audio_filepaths
                  /\ all_data.references[i] = mapped[sorted_indices[i]].references
                  /\ all_data.durations[i] = mapped[sorted_indices[i]].durations
                  /\ all_data.audio_filepaths[i] = audio_path(dataset[sorted_indices[i]].id)
                  /\ all_data.references[i] = dataset[sorted_indices[i]].norm_text
                  /\ all_data.durations[i] = duration(dataset[sorted_indices[i]].audio)
            /\ \A c \in 1 .. Len(manifest) : \A i \in 1 .. n :
                  /\ manifest[c].references[i] = dataset[sorted_indices[i]].norm_text
                  /\ manifest[c].transcriptions[i] = PredictionFor(sorted_indices[i])
            /\ \A c \in 1 .. Len(scored) : \A i \in 1 .. n :
                  /\ scored[c].references[i] = dataset[sorted_indices[i]].norm_text
                  /\ scored[c].predictions[i] = PredictionFor(sorted_indices[i])

\* The WER is computed after a sort that moved samples with different
\* references.
C8_Witness ==
    /\ Len(scored) = 1
    /\ Len(dataset) >= 2
    /\ sorted_indices[1] # 1
    /\ dataset[1].norm_text # dataset[2].norm_text
    /\ dataset[1].id # dataset[2].id

\* C9 as stated: when transcribe has run, the file at every path it was
\* given holds the audio of the sample whose duration and reference are at
\* the same position.
C9_FilesHoldSampleAudio ==
    transcriptions # <<>> =>
        \A i \in 1 .. Len(all_data.audio_filepaths) :
            /\ files[all_data.audio_filepaths[i]] = wav(dataset[sorted_indices[i]].audio)
            /\ all_data.durations[i] = duration(dataset[sorted_indices[i]].audio)

====
